---------------------------- MODULE Spec2Model ----------------------------
(***************************************************************************)
(* Horus UDP to BaseStation converter: the identifier store kept in the    *)
(* ICAO file (find_icao), the per-message handler (handle_sonde_message),  *)
(* the output sink (send_output / connect_output / disconnect_output), the *)
(* per-callsign climb rate (Sonde.calculate_ascent_rate) and the UDP       *)
(* listener thread (UDPListener).                                          *)
(***************************************************************************)
EXTENDS Integers, Sequences, FiniteSets, TLC

\* ----------------------------------------------------------------- bounds
\* Clock ticks the model runs for, and how many ticks make one second: the
\* clock (datetime.now()) is finer than the stored "%H:%M:%S" timestamp.
MaxTime == 6
TicksPerSecond == 2
\* Largest configured capacity (config.ICAO_LIMIT) the model starts with.
MaxLimit == 2
\* The handler taken whole: messages one sonde sends in a row, messages
\* taken when two sondes send complete and incomplete packets and the process
\* is restarted, and the minutes the clock runs for.
MaxObs == 8
MaxMessages == 3
MaxMinutes == 7
\* The listener: threads there could be, calls of start(), datagrams that
\* arrive, and socket errors recvfrom runs into.
MaxThreads == 2
MaxStarts == 2
MaxDatagrams == 2
MaxErrors == 1

\* Callsigns the decoded packets carry.
Callsigns == {"A", "B", "C", "D"}

NoKey == "-"

\* What the whole-handler model is fed: two sondes, two altitudes in metres,
\* and packets that lack the callsign or one of the position fields.
SondeCallsigns == {"A", "B"}
Altitudes == {1000, 1100}
Packets ==
    [callsign : SondeCallsigns, altitude : Altitudes,
     fields : {"all", "no_callsign", "no_position"}]
\* One sonde sending complete packets.
WindowPackets == [callsign : {"A"}, altitude : Altitudes, fields : {"all"}]

\* What arrives on the UDP port: bytes that are not JSON, JSON without a
\* 'type', JSON of another type, and PAYLOAD_SUMMARY packets of the sondes.
Threads == 1..MaxThreads
NoPacket == [callsign |-> NoKey, altitude |-> 0, fields |-> "all"]
ListenerPackets == [callsign : SondeCallsigns, altitude : {1000}, fields : {"all"}]
Datagrams ==
    [kind : {"garbage", "no_type", "other_type"}, packet : {NoPacket}]
        \cup [kind : {"summary"}, packet : ListenerPackets]

VARIABLES
    now,            \* the wall clock, in ticks
    limit,          \* config.ICAO_LIMIT
    file,           \* the content of config.ICAO_FILE
    pc,             \* where the process is
    call,           \* the find_icao call in progress, or the last one
    prev,           \* what the find_icao call before `call` did
    conn,           \* self._conn: "up", "broken" (peer gone) or "closed"
    clientWaiting,  \* a sink client is waiting to be accepted
    msg,            \* the send_output call in progress, or the last one
    stopped,        \* the ICAO file as it was when the process last went down
                    \* (until the next find_icao, which notes it in `call`)
    restarted,      \* the process was started again since the last find_icao
    sondes,         \* self._sondes: callsign -> Sonde
    out,            \* what the last handle_sonde_message call came to
    nobs,           \* messages handled whole so far
    listener_thread,        \* UDPListener.listener_thread: 0 is None
    udp_listener_running,   \* UDPListener.udp_listener_running
    threads,        \* each thread: where it is in udp_rx_thread, its local m
    net,            \* datagrams waiting on the UDP socket, in arrival order
    handled,        \* the datagrams handed to handle_udp_packet, in order
    main,           \* where the main thread is from udp_rx.start() on
    counts          \* calls of start(), datagrams arrived, socket errors

vars == <<now, limit, file, pc, call, prev, conn, clientWaiting, msg,
          stopped, restarted, sondes, out, nobs, listener_thread,
          udp_listener_running, threads, net, handled, main, counts>>

cacheVars == <<file, call, prev, stopped, restarted>>
sinkVars == <<conn, clientWaiting, msg>>
sondeVars == <<sondes, out, nobs>>
listenerVars == <<listener_thread, udp_listener_running, threads, net,
                  handled, main, counts>>

\* -------------------------------------------------------------- timestamps
\* timestamp.strftime("%Y/%m/%d %H:%M:%S"): the fields down to whole seconds.
Strftime(t) ==
    LET s == t \div TicksPerSecond
    IN  [min |-> s \div 60, sec |-> s % 60]

\* datetime.datetime.strptime(x, TIMESTAMP_FORMAT): the sort key.
Strptime(ts) == ts.min * 60 + ts.sec

\* ------------------------------------------------------------ identifiers
RECURSIVE str(_)
str(n) == IF n < 10 THEN <<n>> ELSE str(n \div 10) \o <<n % 10>>

RECURSIVE zfill(_, _)
zfill(s, width) == IF Len(s) >= width THEN s ELSE zfill(<<0>> \o s, width)

NewIcaoUnpadded(icaos) == [prefix |-> "BD", digits |-> str(Len(icaos))]
NewIcaoOneBased(icaos) == [prefix |-> "BD", digits |-> zfill(str(Len(icaos) + 1), 4)]
\* "BD" + str(len(icaos)).zfill(4)
NewIcao(icaos) == [prefix |-> "BD", digits |-> zfill(str(Len(icaos)), 4)]

\* ------------------------------------------------------------ the ICAO file
\* The file is text: a zero-length file, or the JSON of the dict (a dict keeps
\* insertion order, json.dumps writes it in that order, json.loads reads it so).
EmptyFile == [kind |-> "empty", items |-> <<>>]

json_dumps(icaos) == [kind |-> "json", items |-> icaos]

\* json.loads(file.read()): the dict, or ValueError.
json_loads(f) == [ok |-> f.kind = "json", value |-> f.items]

LoadIcaosNoExcept(f) == json_loads(f)
\* try: icaos = json.loads(file.read())  except ValueError: icaos = {}
LoadIcaos(f) ==
    LET p == json_loads(f)
    IN  IF p.ok THEN p ELSE [ok |-> TRUE, value |-> <<>>]

Has(icaos, callsign) == \E i \in DOMAIN icaos : icaos[i].key = callsign

Get(icaos, callsign) == icaos[CHOOSE i \in DOMAIN icaos : icaos[i].key = callsign]

Keys(icaos) == {icaos[i].key : i \in DOMAIN icaos}

AtCapacityStrict(icaos, lim) == Len(icaos) > lim
\* len(icaos) >= config.ICAO_LIMIT
AtCapacity(icaos, lim) == Len(icaos) >= lim

\* sorted() is stable: an item goes after every item whose key is not larger.
InsertSorted(s, x) ==
    LET k == Cardinality({i \in DOMAIN s :
                            Strptime(s[i].timestamp) <= Strptime(x.timestamp)})
    IN  SubSeq(s, 1, k) \o <<x>> \o SubSeq(s, k + 1, Len(s))

RECURSIVE SortedPrefix(_, _)
SortedPrefix(items, n) ==
    IF n = 0 THEN <<>> ELSE InsertSorted(SortedPrefix(items, n - 1), items[n])

\* sorted(icaos.items(), key=lambda x: strptime(x[1]['timestamp'], ...))
sorted_icaos(icaos) == SortedPrefix(icaos, Len(icaos))

OldestKeyLast(icaos) == sorted_icaos(icaos)[Len(icaos)].key
\* key = sorted_icaos[0][0]
OldestKey(icaos) == sorted_icaos(icaos)[1].key

popNothing(icaos, key) == icaos
\* icaos.pop(key)
pop(icaos, key) == SelectSeq(icaos, LAMBDA r : r.key # key)

SetItemKeepStamp(icaos, callsign, icao, timestamp) ==
    IF Has(icaos, callsign)
    THEN icaos
    ELSE Append(icaos, [key |-> callsign, icao |-> icao,
                        timestamp |-> Strftime(timestamp)])
\* icaos[callsign] = {}; ['icao'] = icao; ['timestamp'] = timestamp.strftime(...)
\* (a key already held keeps its place in the dict, a new one goes last)
SetItem(icaos, callsign, icao, timestamp) ==
    LET rec == [key |-> callsign, icao |-> icao,
                timestamp |-> Strftime(timestamp)]
    IN  IF Has(icaos, callsign)
        THEN [i \in DOMAIN icaos |->
                IF icaos[i].key = callsign THEN rec ELSE icaos[i]]
        ELSE Append(icaos, rec)

EvictedIcaoByCount(icaos, key) == NewIcao(pop(icaos, key))
\* icao = icaos[key]['icao']  (the removed record's identifier is used again)
EvictedIcao(icaos, key) == Get(icaos, key).icao

\* find_icao up to the point where the file is rewritten: what was loaded, the
\* dict to write, the identifier to return and the key printed as removed.
find_icao(f, callsign, timestamp, lim) ==
    LET loaded == LoadIcaos(f)
        icaos  == loaded.value
        held   == Has(icaos, callsign)
        evict  == ~held /\ AtCapacity(icaos, lim)
        key    == IF evict THEN OldestKey(icaos) ELSE NoKey
        icao   == IF held THEN Get(icaos, callsign).icao
                  ELSE IF evict THEN EvictedIcao(icaos, key)
                  ELSE NewIcao(icaos)
        kept   == IF evict THEN pop(icaos, key) ELSE icaos
    IN  IF ~loaded.ok
        THEN [raised |-> TRUE, loaded |-> <<>>, icaos |-> <<>>,
              icao |-> NewIcao(<<>>), removed |-> NoKey]
        ELSE [raised |-> FALSE, loaded |-> icaos,
              icaos |-> SetItem(kept, callsign, icao, timestamp),
              icao |-> icao, removed |-> key]

\* ------------------------------------------------------------------- state
NoCall == [state |-> "none", callsign |-> NoKey, time |-> 0, raw |-> EmptyFile,
           loaded |-> <<>>, icaos |-> <<>>, icao |-> NewIcao(<<>>),
           removed |-> NoKey, afterRestart |-> FALSE, atStop |-> EmptyFile]

\* What a later call is compared with: the call's callsign, result and output.
Summary(c) == [state |-> c.state, callsign |-> c.callsign, icao |-> c.icao,
               stamp |-> Strftime(c.time), removed |-> c.removed]

NoMsg == [attempts |-> 0, reconnects |-> 0, outcome |-> "none"]

\* ------------------------------------------------------------------ sondes
\* len(self._ascent_rates) == 6
MaxRates == 6

\* A quotient rounded down instead.
Floor(x, y) == x \div y

\* int(x / y) for y > 0: Python's int() cuts the quotient toward zero.
Trunc(x, y) == IF x >= 0 THEN x \div y ELSE -((-x) \div y)

\* int(packet['altitude'] * 3.281): metres to whole feet.
ToFeet(m) == Trunc(m * 3281, 1000)

RECURSIVE sum(_)
sum(s) == IF s = <<>> THEN 0 ELSE Head(s) + sum(Tail(s))

\* Sonde(callsign): no last altitude, no last message time, no samples.
Sonde ==
    [present |-> TRUE, has_last |-> FALSE, last_alt |-> 0,
     last_message_time |-> 0, ascent_rates |-> <<>>]

\* A callsign that is not in self._sondes.
NoSonde == [Sonde EXCEPT !.present = FALSE]

\* ascent_rate = None, and sum(...) / len(...) kept as the pair it is made of.
NoRate == [none |-> TRUE, sum |-> 0, n |-> 0]

Mean(rates) == [none |-> FALSE, sum |-> sum(rates), n |-> Len(rates)]

\* A pop() that takes the newest sample instead.
DropNew(rates) ==
    IF Len(rates) = MaxRates THEN SubSeq(rates, 1, Len(rates) - 1) ELSE rates

\* self._ascent_rates.pop(0) when the list holds six.
DropOld(rates) == IF Len(rates) = MaxRates THEN Tail(rates) ELSE rates

\* The sample appended: the altitude difference over the elapsed minutes
\* (elapsed is in ticks here), cut to an integer.
Sample(altitude, last_alt, elapsed) ==
    Trunc((altitude - last_alt) * 60 * TicksPerSecond, elapsed)

\* Sonde.calculate_ascent_rate: the list after the call, the value returned,
\* and whether the division raised ZeroDivisionError (the pop has happened by
\* then, the append has not).
calculate_ascent_rate(sonde, altitude, time) ==
    LET kept    == DropOld(sonde.ascent_rates)
        elapsed == time - sonde.last_message_time
    IN  IF ~sonde.has_last
        THEN [raised |-> FALSE, ascent_rates |-> kept, ascent_rate |-> NoRate]
        ELSE IF elapsed = 0
        THEN [raised |-> TRUE, ascent_rates |-> kept, ascent_rate |-> NoRate]
        ELSE LET rates == Append(kept, Sample(altitude, sonde.last_alt, elapsed))
             IN  [raised |-> FALSE, ascent_rates |-> rates,
                  ascent_rate |-> Mean(rates)]

\* The local m of udp_rx_thread before its first assignment, and m = None.
Unbound == [id |-> 0, kind |-> "unbound", packet |-> NoPacket]
NoneM == [id |-> 0, kind |-> "None", packet |-> NoPacket]

\* A handle_sonde_message call: how it ended ("line": the output line was
\* built and sent; "raised": an exception left the handler, `error` says
\* which), the line's fields, and what the Sonde held when the call began
\* (`held`: the number of samples in its window).
NoOut ==
    [state |-> "none", error |-> "", callsign |-> NoKey, time |-> 0,
     icao |-> NewIcao(<<>>), altitude |-> 0, vert_speed |-> NoRate,
     first |-> FALSE, had_last |-> FALSE, last_alt |-> 0,
     last_message_time |-> 0, held |-> 0]

Init ==
    /\ now = 0
    /\ limit \in 1..MaxLimit
    /\ file \in {EmptyFile, json_dumps(<<>>)}
    /\ pc = "idle"
    /\ call = NoCall
    /\ prev = Summary(NoCall)
    /\ conn = "up"
    /\ clientWaiting = FALSE
    /\ msg = NoMsg
    /\ stopped = EmptyFile
    /\ restarted = FALSE
    /\ sondes = [c \in SondeCallsigns |-> NoSonde]
    /\ out = NoOut
    /\ nobs = 0
    /\ listener_thread = 0
    /\ udp_listener_running = FALSE
    /\ threads = [t \in Threads |-> [pc |-> "unborn", m |-> Unbound]]
    /\ net = <<>>
    /\ handled = <<>>
    /\ main = "init"
    /\ counts = [starts |-> 0, sent |-> 0, errors |-> 0]

\* ----------------------------------------------------------------- actions
\* Time passes between messages.
Tick ==
    /\ now < MaxTime
    /\ now' = now + 1
    /\ UNCHANGED <<limit, pc, cacheVars, sinkVars>>
    /\ UNCHANGED sondeVars
    /\ UNCHANGED listenerVars

\* handle_sonde_message up to find_icao's file.truncate(): message_time is
\* read off the clock (which has moved on by the next reading), the file is
\* opened and read, the dict is updated in memory, the file is cut to length
\* zero.
HandleSondeMessage(callsign) ==
    /\ pc = "idle"
    /\ now < MaxTime
    /\ now' = now + 1
    /\ LET r == find_icao(file, callsign, now, limit)
       IN  /\ prev' = Summary(call)
           /\ restarted' = FALSE
           /\ stopped' = EmptyFile
           /\ IF r.raised
              THEN /\ call' = [state |-> "raised", callsign |-> callsign,
                               time |-> now, raw |-> file, loaded |-> r.loaded,
                               icaos |-> r.icaos, icao |-> r.icao,
                               removed |-> r.removed, afterRestart |-> restarted,
                               atStop |-> IF restarted THEN stopped ELSE EmptyFile]
                   /\ UNCHANGED <<file, pc>>
              ELSE /\ call' = [state |-> "open", callsign |-> callsign,
                               time |-> now, raw |-> file, loaded |-> r.loaded,
                               icaos |-> r.icaos, icao |-> r.icao,
                               removed |-> r.removed, afterRestart |-> restarted,
                               atStop |-> IF restarted THEN stopped ELSE EmptyFile]
                   /\ file' = EmptyFile
                   /\ pc' = "find_icao_write"
    /\ UNCHANGED <<limit, sinkVars>>
    /\ UNCHANGED sondeVars
    /\ UNCHANGED listenerVars

\* file.write(json.dumps(icaos)), the file is closed, find_icao returns and
\* the handler goes on to send_output.
FindIcaoWrite ==
    /\ pc = "find_icao_write"
    /\ file' = json_dumps(call.icaos)
    /\ call' = [call EXCEPT !.state = "returned"]
    /\ msg' = [attempts |-> 0, reconnects |-> 0, outcome |-> "pending"]
    /\ pc' = "send_output"
    /\ UNCHANGED <<now, limit, prev, stopped, restarted, conn, clientWaiting>>
    /\ UNCHANGED sondeVars
    /\ UNCHANGED listenerVars

\* self._conn.send(data); on an exception disconnect_output() closes the
\* connection and connect_output() waits in accept().
SendOutput ==
    /\ pc = "send_output"
    /\ IF conn = "up"
       THEN /\ msg' = [msg EXCEPT !.attempts = @ + 1, !.outcome = "sent"]
            /\ pc' = "idle"
            /\ UNCHANGED conn
       ELSE /\ msg' = [msg EXCEPT !.attempts = @ + 1]
            /\ conn' = "closed"
            /\ pc' = "connect_output"
    /\ UNCHANGED <<now, limit, cacheVars, clientWaiting>>
    /\ UNCHANGED sondeVars
    /\ UNCHANGED listenerVars

\* connect_output inside send_output: accept() returns a new connection.
ConnectOutput ==
    /\ pc = "connect_output"
    /\ clientWaiting
    /\ clientWaiting' = FALSE
    /\ conn' = "up"
    /\ msg' = [msg EXCEPT !.reconnects = @ + 1]
    /\ pc' = "retry"
    /\ UNCHANGED <<now, limit, cacheVars>>
    /\ UNCHANGED sondeVars
    /\ UNCHANGED listenerVars

\* A retry that, failing, reconnects and tries again.
RetrySendLoop ==
    /\ pc = "retry"
    /\ IF conn = "up"
       THEN /\ msg' = [msg EXCEPT !.attempts = @ + 1, !.outcome = "sent"]
            /\ pc' = "idle"
            /\ UNCHANGED conn
       ELSE /\ msg' = [msg EXCEPT !.attempts = @ + 1]
            /\ conn' = "closed"
            /\ pc' = "connect_output"
    /\ UNCHANGED <<now, limit, cacheVars, clientWaiting>>
    /\ UNCHANGED sondeVars
    /\ UNCHANGED listenerVars

\* print("Retrying to send last message"); self._conn.send(data); on an
\* exception print("Couldn't send after reconnect") and return.
RetrySend ==
    /\ pc = "retry"
    /\ IF conn = "up"
       THEN /\ msg' = [msg EXCEPT !.attempts = @ + 1, !.outcome = "sent"]
            /\ pc' = "idle"
       ELSE /\ msg' = [msg EXCEPT !.attempts = @ + 1, !.outcome = "dropped"]
            /\ pc' = "idle"
    /\ UNCHANGED <<now, limit, cacheVars, conn, clientWaiting>>
    /\ UNCHANGED sondeVars
    /\ UNCHANGED listenerVars

\* The environment: the sink client goes away, a sink client turns up.
SinkBreak ==
    /\ conn = "up"
    /\ conn' = "broken"
    /\ UNCHANGED <<now, limit, pc, cacheVars, clientWaiting, msg>>
    /\ UNCHANGED sondeVars
    /\ UNCHANGED listenerVars

ClientArrives ==
    /\ ~clientWaiting
    /\ clientWaiting' = TRUE
    /\ UNCHANGED <<now, limit, pc, cacheVars, conn, msg>>
    /\ UNCHANGED sondeVars
    /\ UNCHANGED listenerVars

\* The process is killed, wherever it is.
Crash ==
    /\ pc # "down"
    /\ pc' = "down"
    /\ conn' = "closed"
    /\ stopped' = file
    /\ UNCHANGED <<now, limit, file, call, prev, restarted, clientWaiting, msg>>
    /\ UNCHANGED sondeVars
    /\ UNCHANGED listenerVars

\* A start that opens the ICAO file for writing, which empties it.
StartTruncating ==
    /\ pc = "down"
    /\ clientWaiting
    /\ clientWaiting' = FALSE
    /\ conn' = "up"
    /\ file' = EmptyFile
    /\ restarted' = TRUE
    /\ pc' = "idle"
    /\ UNCHANGED <<now, limit, call, prev, stopped, msg>>
    /\ sondes' = [c \in SondeCallsigns |-> NoSonde]
    /\ UNCHANGED <<out, nobs>>
    /\ UNCHANGED listenerVars

\* HorusUDPToBasestation.__init__: connect_output() accepts the sink client,
\* the listener starts; the ICAO file is not touched.
Start ==
    /\ pc = "down"
    /\ clientWaiting
    /\ clientWaiting' = FALSE
    /\ conn' = "up"
    /\ restarted' = TRUE
    /\ pc' = "idle"
    /\ UNCHANGED <<now, limit, file, call, prev, stopped, msg>>
    /\ sondes' = [c \in SondeCallsigns |-> NoSonde]
    /\ UNCHANGED <<out, nobs>>
    /\ UNCHANGED listenerVars

\* ------------------------------------------------------- the handler whole
\* A minute passes between messages.
AdvanceMinute ==
    /\ now + 60 * TicksPerSecond <= MaxMinutes * 60 * TicksPerSecond
    /\ now' = now + 60 * TicksPerSecond
    /\ UNCHANGED <<limit, pc, cacheVars, sinkVars, sondeVars>>
    /\ UNCHANGED listenerVars

\* handle_sonde_message from its first line to the first self._conn.send of
\* send_output, which fails if the sink client has gone. message_time is a
\* reading of the wall clock, and two readings can be the same.
\* packet['callsign'] raises KeyError before anything is done;
\* find_icao runs; a missing position field raises KeyError after it; the
\* Sonde is created if the callsign has none; calculate_ascent_rate may raise
\* ZeroDivisionError; last_alt and last_message_time are set; the line is sent.
\* An exception leaves the handler and is printed by handle_udp_packet. The
\* run takes at most `most` messages.
HandleBody(packet, most) ==
    /\ pc = "idle"
    /\ nobs < most
    /\ nobs' = nobs + 1
    /\ LET callsign == packet.callsign
           r        == find_icao(file, callsign, now, limit)
           altitude == ToFeet(packet.altitude)
           known    == sondes[callsign].present
           sonde    == IF known THEN sondes[callsign] ELSE Sonde
           c        == calculate_ascent_rate(sonde, altitude, now)
           o        == [state |-> "line", error |-> "", callsign |-> callsign,
                        time |-> now, icao |-> r.icao, altitude |-> altitude,
                        vert_speed |-> c.ascent_rate, first |-> ~known,
                        had_last |-> sonde.has_last,
                        last_alt |-> sonde.last_alt,
                        last_message_time |-> sonde.last_message_time,
                        held |-> Len(sonde.ascent_rates)]
       IN  IF packet.fields = "no_callsign"
           THEN /\ out' = [NoOut EXCEPT !.state = "raised",
                                        !.error = "callsign", !.time = now]
                /\ UNCHANGED <<file, stopped, restarted, sondes, msg>>
           ELSE /\ file' = json_dumps(r.icaos)
                /\ stopped' = EmptyFile
                /\ restarted' = FALSE
                /\ IF packet.fields = "no_position"
                   THEN /\ out' = [o EXCEPT !.state = "raised",
                                            !.error = "position",
                                            !.altitude = 0,
                                            !.vert_speed = NoRate]
                        /\ UNCHANGED <<sondes, msg>>
                   ELSE IF c.raised
                   THEN /\ out' = [o EXCEPT !.state = "raised",
                                            !.error = "rate"]
                        /\ sondes' = [sondes EXCEPT ![callsign] =
                               [sonde EXCEPT !.ascent_rates = c.ascent_rates]]
                        /\ UNCHANGED msg
                   ELSE /\ out' = o
                        /\ sondes' = [sondes EXCEPT ![callsign] =
                               [sonde EXCEPT !.ascent_rates = c.ascent_rates,
                                             !.has_last = TRUE,
                                             !.last_alt = altitude,
                                             !.last_message_time = now]]
                        /\ msg' = [attempts |-> 1, reconnects |-> 0,
                                   outcome |-> IF conn = "up" THEN "sent"
                                               ELSE "pending"]
    /\ UNCHANGED <<now, limit, pc, call, prev, clientWaiting>>

\* The handler called with the sink client connected: the first send succeeds.
handle_sonde_message(packet, most) ==
    /\ conn = "up"
    /\ HandleBody(packet, most)
    /\ UNCHANGED conn
    /\ UNCHANGED listenerVars

\* ------------------------------------------------------------ the listener
\* A thread that has not been created yet.
Unborn == {t \in Threads : threads[t].pc = "unborn"}

NewThread == CHOOSE t \in Unborn : \A u \in Unborn : t <= u

\* A start() that creates a thread whether or not there is one.
StartAlways ==
    /\ main \in {"init", "running"}
    /\ counts.starts < MaxStarts
    /\ counts' = [counts EXCEPT !.starts = @ + 1]
    /\ main' = "running"
    /\ IF Unborn # {}
       THEN /\ listener_thread' = NewThread
            /\ threads' = [threads EXCEPT ![NewThread].pc = "starting"]
       ELSE UNCHANGED <<listener_thread, threads>>
    /\ UNCHANGED <<now, limit, pc, cacheVars, sinkVars, sondeVars,
                   udp_listener_running, net, handled>>

\* UDPListener.start(): a thread is created and started only if
\* self.listener_thread is None. The main thread goes on to its sleep loop.
start ==
    /\ main \in {"init", "running"}
    /\ counts.starts < MaxStarts
    /\ counts' = [counts EXCEPT !.starts = @ + 1]
    /\ main' = "running"
    /\ IF listener_thread = 0
       THEN /\ listener_thread' = NewThread
            /\ threads' = [threads EXCEPT ![NewThread].pc = "starting"]
       ELSE UNCHANGED <<listener_thread, threads>>
    /\ UNCHANGED <<now, limit, pc, cacheVars, sinkVars, sondeVars,
                   udp_listener_running, net, handled>>

\* udp_rx_thread up to its loop: the socket is made and bound, and
\* self.udp_listener_running = True.
udp_rx_thread(t) ==
    /\ threads[t].pc = "starting"
    /\ udp_listener_running' = TRUE
    /\ threads' = [threads EXCEPT ![t].pc = "loop"]
    /\ UNCHANGED <<now, limit, pc, cacheVars, sinkVars, sondeVars,
                   listener_thread, net, handled, main, counts>>

\* One turn of the loop as far as the call of handle_udp_packet: the flag is
\* true; recvfrom returns a datagram (m is set to it), times out with none
\* waiting (m = None), or raises another exception, which is printed and
\* leaves m as it was. With m unbound, `m != None` raises NameError and the
\* thread dies; with m a datagram, handle_udp_packet(m[0]) is called.
recvfrom(t, outcome) ==
    /\ threads[t].pc = "loop"
    /\ udp_listener_running
    /\ LET m == IF outcome = "packet" THEN Head(net)
                ELSE IF outcome = "timeout" THEN NoneM
                ELSE threads[t].m
       IN  /\ outcome = "packet" => net # <<>>
           /\ outcome = "timeout" => net = <<>>
           /\ outcome = "error" => counts.errors < MaxErrors
           /\ net' = IF outcome = "packet" THEN Tail(net) ELSE net
           /\ counts' = IF outcome = "error"
                        THEN [counts EXCEPT !.errors = @ + 1] ELSE counts
           /\ threads' = [threads EXCEPT ![t] =
                  [pc |-> IF m = Unbound THEN "dead"
                          ELSE IF m = NoneM THEN "loop"
                          ELSE "handle",
                   m |-> m]]
           /\ handled' = IF m \in {Unbound, NoneM} THEN handled
                         ELSE Append(handled, m)
    /\ UNCHANGED <<now, limit, pc, cacheVars, sinkVars, sondeVars,
                   listener_thread, udp_listener_running, main>>

\* A handle_udp_packet that calls the callback whatever the packet is.
HandleUdpPacketAny(t) ==
    /\ threads[t].pc = "handle"
    /\ threads' = [threads EXCEPT ![t].pc = "callback"]
    /\ UNCHANGED <<now, limit, pc, cacheVars, sinkVars, sondeVars,
                   listener_thread, udp_listener_running, net, handled,
                   main, counts>>

\* handle_udp_packet up to the callback: json.loads raises on bytes that are
\* not JSON, packet_dict['type'] raises KeyError, or the type is not
\* 'PAYLOAD_SUMMARY'; the exception is printed and the function returns.
handle_udp_packet(t) ==
    /\ threads[t].pc = "handle"
    /\ threads' = [threads EXCEPT ![t].pc =
           IF threads[t].m.kind = "summary" THEN "callback" ELSE "loop"]
    /\ UNCHANGED <<now, limit, pc, cacheVars, sinkVars, sondeVars,
                   listener_thread, udp_listener_running, net, handled,
                   main, counts>>

\* self.callback(packet_dict): handle_sonde_message on the listener thread.
\* If the line's first send fails, send_output closes the connection and the
\* thread waits in connect_output's accept().
callback(t) ==
    /\ threads[t].pc = "callback"
    /\ HandleBody(threads[t].m.packet, MaxDatagrams + MaxErrors)
    /\ IF conn = "up" \/ out'.state # "line"
       THEN /\ threads' = [threads EXCEPT ![t].pc = "loop"]
            /\ UNCHANGED conn
       ELSE /\ threads' = [threads EXCEPT ![t].pc = "accept"]
            /\ conn' = "closed"
    /\ UNCHANGED <<listener_thread, udp_listener_running, net, handled,
                   main, counts>>

\* accept() returns a new sink connection; the line is sent again and the
\* callback returns.
accept(t) ==
    /\ threads[t].pc = "accept"
    /\ clientWaiting
    /\ clientWaiting' = FALSE
    /\ conn' = "up"
    /\ msg' = [attempts |-> 2, reconnects |-> 1, outcome |-> "sent"]
    /\ threads' = [threads EXCEPT ![t].pc = "loop"]
    /\ UNCHANGED <<now, limit, pc, cacheVars, sondeVars, listener_thread,
                   udp_listener_running, net, handled, main, counts>>

\* The while test fails: "Closing UDP Listener", self.s.close().
udp_rx_thread_exit(t) ==
    /\ threads[t].pc = "loop"
    /\ ~udp_listener_running
    /\ threads' = [threads EXCEPT ![t].pc = "done"]
    /\ UNCHANGED <<now, limit, pc, cacheVars, sinkVars, sondeVars,
                   listener_thread, udp_listener_running, net, handled,
                   main, counts>>

\* KeyboardInterrupt in the main thread's sleep loop: udp_rx.close() sets
\* self.udp_listener_running = False and goes on to join the thread.
close ==
    /\ main = "running"
    /\ udp_listener_running' = FALSE
    /\ main' = "join"
    /\ UNCHANGED <<now, limit, pc, cacheVars, sinkVars, sondeVars,
                   listener_thread, threads, net, handled, counts>>

\* self.listener_thread.join() returns once the thread has ended.
join ==
    /\ main = "join"
    /\ threads[listener_thread].pc \in {"done", "dead"}
    /\ main' = "closed"
    /\ UNCHANGED <<now, limit, pc, cacheVars, sinkVars, sondeVars,
                   listener_thread, udp_listener_running, threads, net,
                   handled, counts>>

\* self.disconnect_output() after udp_rx.close(): the sink connection is
\* closed and the process ends.
disconnect_output ==
    /\ main = "closed"
    /\ conn' = "closed"
    /\ main' = "exited"
    /\ UNCHANGED <<now, limit, pc, cacheVars, clientWaiting, msg, sondeVars,
                   listener_thread, udp_listener_running, threads, net,
                   handled, counts>>

\* A datagram arrives while the UDP socket is open.
Arrive(d) ==
    /\ counts.sent < MaxDatagrams
    /\ \E t \in Threads : threads[t].pc \in {"loop", "handle", "callback", "accept"}
    /\ counts' = [counts EXCEPT !.sent = @ + 1]
    /\ net' = Append(net, [id |-> counts.sent + 1, kind |-> d.kind,
                           packet |-> d.packet])
    /\ UNCHANGED <<now, limit, pc, cacheVars, sinkVars, sondeVars,
                   listener_thread, udp_listener_running, threads, handled,
                   main>>

\* The identifier store: messages arrive as the clock runs, the process is
\* killed and started again; the sink client stays connected while it runs.
Next ==
    \/ Tick
    \/ \E callsign \in Callsigns : HandleSondeMessage(callsign)
    \/ FindIcaoWrite
    \/ SendOutput
    \/ ClientArrives
    \/ Crash
    \/ Start

Spec == Init /\ [][Next]_vars

\* The sink: the same handler with a sink client that comes and goes.
SinkNext ==
    \/ \E callsign \in Callsigns : HandleSondeMessage(callsign)
    \/ FindIcaoWrite
    \/ SendOutput
    \/ ConnectOutput
    \/ RetrySend
    \/ SinkBreak
    \/ ClientArrives
    \/ Crash
    \/ Start

SinkSpec == Init /\ [][SinkNext]_vars

\* The sink with the listener thread scheduled: a step of the handler that can
\* be taken is taken in the end. Nothing makes a sink client turn up.
SinkLiveSpec ==
    /\ SinkSpec
    /\ WF_vars(FindIcaoWrite)
    /\ WF_vars(SendOutput)
    /\ WF_vars(ConnectOutput)
    /\ WF_vars(RetrySend)

\* The handler taken whole: messages of two sondes, complete or not, minutes
\* apart or on the same clock reading; the process is killed and started again.
SondeNext ==
    \/ AdvanceMinute
    \/ \E packet \in Packets : handle_sonde_message(packet, MaxMessages)
    \/ ClientArrives
    \/ Crash
    \/ Start

SondeSpec == Init /\ [][SondeNext]_vars

\* One sonde reporting long enough for its window of samples to fill and
\* turn over.
WindowNext ==
    \/ AdvanceMinute
    \/ \E packet \in WindowPackets : handle_sonde_message(packet, MaxObs)

WindowSpec == Init /\ [][WindowNext]_vars

\* The listener: the main thread starts it and closes it, its thread receives
\* datagrams and calls the handler, the sink client comes and goes.
ListenerNext ==
    \/ start
    \/ close
    \/ join
    \/ disconnect_output
    \/ \E t \in Threads : udp_rx_thread(t)
    \/ \E t \in Threads, outcome \in {"packet", "timeout", "error"} :
           recvfrom(t, outcome)
    \/ \E t \in Threads : handle_udp_packet(t)
    \/ \E t \in Threads : callback(t)
    \/ \E t \in Threads : accept(t)
    \/ \E t \in Threads : udp_rx_thread_exit(t)
    \/ \E d \in Datagrams : Arrive(d)
    \/ SinkBreak
    \/ ClientArrives

ListenerSpec == Init /\ [][ListenerNext]_vars

\* The listener with its threads scheduled and the main thread running on: a
\* step of udp_rx_thread, of the callback or of the shutdown that can be taken
\* is taken in the end. Nothing makes a datagram or a sink client turn up.
ListenerLiveSpec ==
    /\ ListenerSpec
    /\ \A t \in Threads :
           /\ WF_vars(udp_rx_thread(t))
           /\ WF_vars(\E outcome \in {"packet", "timeout"} : recvfrom(t, outcome))
           /\ WF_vars(handle_udp_packet(t))
           /\ WF_vars(callback(t))
           /\ WF_vars(accept(t))
           /\ WF_vars(udp_rx_thread_exit(t))
    /\ WF_vars(join)
    /\ WF_vars(disconnect_output)

\* ------------------------------------------------------------------ claims
\* A find_icao call that got as far as updating the dict (it is writing the
\* file, has returned, or was cut short by a kill).
Resolved == call.state \in {"open", "returned"}

Returned == call.state = "returned"

\* The i-th loaded record is the oldest: no record has an earlier stored
\* timestamp, and none with the same timestamp comes before it in the dict.
IsOldest(icaos, i) ==
    \A j \in DOMAIN icaos :
        /\ Strptime(icaos[j].timestamp) >= Strptime(icaos[i].timestamp)
        /\ Strptime(icaos[j].timestamp) = Strptime(icaos[i].timestamp) => i <= j

\* The records of `icaos` other than callsign's and the i-th are still held.
OthersKept(icaos, i, callsign, after) ==
    \A j \in DOMAIN icaos :
        (j # i /\ icaos[j].key # callsign) => \E k \in DOMAIN after : after[k] = icaos[j]

\* "BD" followed by n in four digits.
Padded(n) ==
    [prefix |-> "BD",
     digits |-> <<(n \div 1000) % 10, (n \div 100) % 10, (n \div 10) % 10, n % 10>>]

\* C1: the persisted record set never holds more distinct callsigns (nor more
\* records) than ICAO_LIMIT.
C1_CapacityBound ==
    /\ Cardinality(Keys(file.items)) <= limit
    /\ Len(file.items) <= limit

\* C1 witness: a full store of two or more records after a resolution that evicted.
C1_Witness ==
    /\ Returned
    /\ call.removed # NoKey
    /\ limit >= 2
    /\ Cardinality(Keys(file.items)) = limit

\* C2: no two callsigns held in the store have the same identifier.
C2_UniqueIdentifiers ==
    \A i, j \in DOMAIN file.items :
        i # j => /\ file.items[i].icao # file.items[j].icao
                 /\ file.items[i].key # file.items[j].key

\* C2 witness: two records held right after an eviction gave its identifier away.
C2_Witness ==
    /\ Returned
    /\ call.removed # NoKey
    /\ Len(file.items) >= 2
    /\ Get(file.items, call.callsign).icao # Padded(Len(file.items) - 1)

\* C3: a resolution of a callsign not held, with the store at capacity, removes
\* exactly one record, the one with the minimum stored timestamp and among
\* those the earliest inserted; any other resolution removes none.
C3_EvictsOldest ==
    Resolved =>
        LET L == call.loaded
            gone == Keys(L) \ Keys(call.icaos)
        IN  IF ~Has(L, call.callsign) /\ Len(L) >= limit
            THEN \E i \in DOMAIN L :
                    /\ gone = {L[i].key}
                    /\ call.removed = L[i].key
                    /\ IsOldest(L, i)
                    /\ OthersKept(L, i, call.callsign, call.icaos)
                    /\ Len(call.icaos) = Len(L)
            ELSE /\ gone = {}
                 /\ call.removed = NoKey
                 /\ OthersKept(L, 0, call.callsign, call.icaos)

\* C3 witness: the record removed is not the first of the dict (a later
\* resolution had made the first one younger).
C3_Witness ==
    /\ Resolved
    /\ call.removed # NoKey
    /\ Len(call.loaded) >= 2
    /\ call.loaded[1].key # call.removed

\* Two find_icao calls in a row for one callsign, both returned.
SecondInARow ==
    /\ Returned
    /\ prev.state = "returned"
    /\ prev.callsign = call.callsign

\* The record the store holds for the callsign of the last call.
Stored == Get(file.items, call.callsign)

\* C4 as stated: resolving a callsign twice in a row returns the same
\* identifier, and the stored timestamp is then the time of the second
\* resolution, later than the one stored after the first.
C4_Original ==
    SecondInARow =>
        /\ call.icao = prev.icao
        /\ Stored.timestamp = Strftime(call.time)
        /\ Strptime(Stored.timestamp) > Strptime(prev.stamp)

\* C4 as amended: resolving a callsign twice in a row returns the same
\* identifier both times, the record keeps it, and the stored timestamp is
\* then the time of the second resolution cut to whole seconds, which is not
\* earlier than the one stored after the first (and equal to it when both
\* resolutions fall in the same second).
C4_SameIdentifierNewStamp ==
    SecondInARow =>
        /\ call.icao = prev.icao
        /\ Stored.icao = call.icao
        /\ Stored.timestamp = Strftime(call.time)
        /\ Strptime(Stored.timestamp) >= Strptime(prev.stamp)

\* C4 witness: a second resolution in a row, a second or more after the first.
C4_Witness ==
    /\ SecondInARow
    /\ Strptime(Stored.timestamp) > Strptime(prev.stamp)

\* C5: a callsign evicted by the resolution just before is resolved as a new
\* one: it is not found, the then-oldest record is evicted and its identifier
\* is given to the callsign. With capacity 1 the store holds exactly the
\* callsign resolved last, and resolving another callsign than the one before
\* evicts that one and nothing else.
C5_EvictedIsBrandNew ==
    /\ (Returned /\ prev.state = "returned" /\ prev.removed = call.callsign) =>
            /\ ~Has(call.loaded, call.callsign)
            /\ call.removed # NoKey
            /\ \E i \in DOMAIN call.loaded :
                    /\ call.loaded[i].key = call.removed
                    /\ IsOldest(call.loaded, i)
                    /\ call.icao = call.loaded[i].icao
            /\ Has(file.items, call.callsign)
            /\ ~Has(file.items, call.removed)
    /\ (Returned /\ limit = 1) =>
            /\ Len(file.items) = 1
            /\ Keys(file.items) = {call.callsign}
            /\ (prev.state = "returned" /\ prev.callsign # call.callsign) =>
                    /\ call.removed = prev.callsign
                    /\ Keys(call.loaded) = {prev.callsign}

\* C5 witness: capacity 1, A then B then A: B evicted A, A now evicted B.
C5_Witness ==
    /\ limit = 1
    /\ Returned
    /\ prev.state = "returned"
    /\ prev.callsign = "B" /\ prev.removed = "A"
    /\ call.callsign = "A" /\ call.removed = "B"
    /\ Keys(file.items) = {"A"}

\* A find_icao call for a callsign the store did not hold.
NewCallsign == Resolved /\ ~Has(call.loaded, call.callsign)

\* C6 as stated: a callsign not yet in the store gets "BD" followed by the
\* count of the records held at the time of assignment in four digits, below
\* capacity and after an eviction alike.
C6_Original ==
    NewCallsign =>
        call.icao = Padded(IF call.removed # NoKey
                           THEN Len(call.loaded) - 1
                           ELSE Len(call.loaded))

\* C6 as amended: a callsign not yet in the store gets "BD" followed by the
\* count of the records held in four digits when the store is below capacity;
\* when a record was evicted to make room it gets the evicted record's
\* identifier, whatever the count.
C6_CountOrRecycled ==
    NewCallsign =>
        IF call.removed = NoKey
        THEN call.icao = Padded(Len(call.loaded))
        ELSE call.icao = Get(call.loaded, call.removed).icao

\* C6 witness: an eviction whose recycled identifier is not the count.
C6_Witness ==
    /\ NewCallsign
    /\ call.removed # NoKey
    /\ call.icao # Padded(Len(call.loaded) - 1)

\* C7: the first find_icao after a start of the process returns, for a callsign
\* the persisted store held when the process went down, the identifier held
\* there, and what it evicts is the oldest record of that store by its
\* persisted timestamp.
C7_RestartKeepsAssignment ==
    (Resolved /\ call.afterRestart /\ json_loads(call.atStop).ok) =>
        LET S == call.atStop.items
        IN  /\ Has(S, call.callsign) => call.icao = Get(S, call.callsign).icao
            /\ call.removed # NoKey =>
                    \E i \in DOMAIN S : S[i].key = call.removed /\ IsOldest(S, i)
            /\ (~Has(S, call.callsign) /\ Len(S) >= limit) => call.removed # NoKey

\* C7 witness: after a restart a callsign of the store of two records got the
\* identifier it had, which is not the first one.
C7_Witness ==
    /\ Returned
    /\ call.afterRestart
    /\ Len(call.atStop.items) = 2
    /\ Has(call.atStop.items, call.callsign)
    /\ call.icao = Padded(1)

\* A find_icao call that found a file it could not parse.
OnCorruptStore == call.state # "none" /\ ~json_loads(call.raw).ok

\* C8: find_icao on a store that cannot be parsed does not fail: it goes on
\* from an empty record set, gives the callsign an identifier (the first), and
\* once it has returned the file parses and holds exactly that callsign's
\* record; the handler goes on with the message.
C8_CorruptStoreSelfHeals ==
    OnCorruptStore =>
        /\ call.state # "raised"
        /\ call.loaded = <<>>
        /\ call.removed = NoKey
        /\ call.icao = Padded(0)
        /\ Returned =>
                /\ json_loads(file).ok
                /\ Len(file.items) = 1
                /\ file.items[1].key = call.callsign
                /\ file.items[1].icao = call.icao
                /\ file.items[1].timestamp = Strftime(call.time)
                /\ pc # "find_icao_write"

\* C8 witness: a kill during the call before left a file of length zero, and
\* the next call returned with the file holding its callsign alone.
C8_Witness ==
    /\ OnCorruptStore
    /\ Returned
    /\ prev.state = "open"
    /\ Keys(file.items) = {call.callsign}

\* C9: at every point of a resolution, a kill in the middle of it included,
\* the file holds the complete record set from before the resolution or the
\* complete one after it.
C9_AtomicPersist ==
    (call.state = "open" /\ json_loads(call.raw).ok) =>
        \/ file = call.raw
        \/ file = json_dumps(call.icaos)

\* C10: a message gets at most two send attempts and one reconnect; the second
\* attempt comes after exactly one disconnect and reconnect; a message whose
\* retry fails is dropped after two attempts and one reconnect, send_output is
\* over and the handler is free for the next record.
C10_OneReconnectOneRetry ==
    /\ msg.attempts <= 2
    /\ msg.reconnects <= 1
    /\ msg.attempts = 2 => msg.reconnects = 1
    /\ pc = "send_output" => msg.attempts = 0 /\ msg.reconnects = 0
    /\ pc = "connect_output" =>
            msg.attempts = 1 /\ msg.reconnects = 0 /\ conn = "closed"
    /\ pc = "retry" => msg.attempts = 1 /\ msg.reconnects = 1
    /\ msg.outcome = "sent" =>
            /\ msg.attempts \in {1, 2}
            /\ msg.reconnects = msg.attempts - 1
            /\ pc \notin {"send_output", "connect_output", "retry"}
    /\ msg.outcome = "dropped" =>
            /\ msg.attempts = 2
            /\ msg.reconnects = 1
            /\ pc \notin {"send_output", "connect_output", "retry"}

\* C10 witness: a message was dropped after its retry and the next record is
\* being handled (its find_icao is writing the file).
C10_Witness ==
    /\ msg.outcome = "dropped"
    /\ msg.attempts = 2
    /\ msg.reconnects = 1
    /\ pc = "find_icao_write"

\* C11: once the first send of a message has failed (send_output is in its
\* reconnect) the handling of the message finishes in the end, whether or not
\* a sink client ever connects again.
C11_SendNeverBlocks ==
    [](pc = "connect_output" => <>(pc # "connect_output"))

\* The last message produced its line and was the second observation of its
\* callsign: the Sonde had a last altitude and time, and the window holds the
\* one sample computed now.
SecondObservation ==
    /\ out.state = "line"
    /\ out.had_last
    /\ out.vert_speed.n = 1

\* The altitude difference of the last message times the ticks in a minute,
\* and the ticks elapsed since the callsign's previous observation: the climb
\* rate per minute is the quotient of the two.
Climbed == (out.altitude - out.last_alt) * 60 * TicksPerSecond

Elapsed == out.time - out.last_message_time

\* C12 as stated: the first observation of a callsign since the process
\* started returns no climb rate, and the second returns the altitude
\* difference divided by the elapsed minutes.
C12_Original ==
    /\ (out.state = "line" /\ out.first) => out.vert_speed.none
    /\ (SecondObservation /\ Elapsed # 0) =>
           /\ ~out.vert_speed.none
           /\ out.vert_speed.sum * Elapsed = Climbed

\* C12: the first observation of a callsign since the process started returns
\* no climb rate; the second, taken at a later clock reading, returns the
\* altitude difference divided by the elapsed minutes with the fraction cut
\* off (rounded toward zero).
C12_FirstNoneSecondTruncated ==
    /\ (out.state = "line" /\ out.first) => out.vert_speed.none
    /\ (SecondObservation /\ Elapsed # 0) =>
           LET q == out.vert_speed.sum
               a == IF Climbed >= 0 THEN Climbed ELSE -Climbed
               b == IF q >= 0 THEN q ELSE -q
           IN  /\ ~out.vert_speed.none
               /\ q * Climbed >= 0
               /\ b * Elapsed <= a
               /\ a < (b + 1) * Elapsed

\* A second observation of a sonde that came down, whose quotient is not whole.
C12_Witness ==
    /\ SecondObservation
    /\ Climbed < 0
    /\ Climbed % Elapsed # 0
    /\ out.vert_speed.sum # 0

\* s is what is left of t when samples are dropped from its front.
IsTail(s, t) ==
    /\ Len(s) <= Len(t)
    /\ \A i \in 1..Len(s) : s[i] = t[Len(t) - Len(s) + i]

\* A step in which a climb rate is returned for callsign c.
RateReturned(c) ==
    /\ out' # out
    /\ out'.state = "line"
    /\ out'.callsign = c
    /\ ~out'.vert_speed.none

\* C13: a callsign's window holds at most 6 samples; a step only drops samples
\* from its front (the oldest first) and, when a rate is returned, puts the
\* sample computed now at its end, dropping the oldest only if there were 6;
\* the rate returned is the sum of exactly the samples then in the window over
\* their number.
C13_WindowOfSix ==
    [][\A c \in SondeCallsigns :
          LET w  == sondes[c].ascent_rates
              w2 == sondes'[c].ascent_rates
          IN  /\ Len(w2) <= 6
              /\ IF RateReturned(c)
                 THEN /\ Len(w2) = (IF Len(w) = 6 THEN 6 ELSE Len(w) + 1)
                      /\ IsTail(SubSeq(w2, 1, Len(w2) - 1), w)
                      /\ w2[Len(w2)] =
                             Trunc((out'.altitude - out'.last_alt)
                                       * 60 * TicksPerSecond,
                                   out'.time - out'.last_message_time)
                      /\ out'.vert_speed.n = Len(w2)
                      /\ out'.vert_speed.sum = sum(w2)
                 ELSE IsTail(w2, w)]_vars

\* The seventh sample has been computed: the window was full, its oldest
\* sample went and the rate returned is the mean of six samples that are not
\* all the same.
C13_Witness ==
    /\ out.state = "line"
    /\ out.held = 6
    /\ out.vert_speed.n = 6
    /\ LET w == sondes[out.callsign].ascent_rates
       IN  /\ Len(w) = 6
           /\ w[1] # w[6]
           /\ w[1] # w[2]

\* The last message was complete and came at the clock reading of its
\* callsign's last observation.
ElapsedZero ==
    /\ out.state \in {"line", "raised"}
    /\ out.error \notin {"callsign", "position"}
    /\ out.had_last
    /\ out.time = out.last_message_time

\* C15: an observation at the clock reading of the callsign's last observation
\* does not fail: its output line is produced and the window has lost none of
\* the samples it held.
C15_ZeroElapsedNoFailure ==
    ElapsedZero =>
        /\ out.state = "line"
        /\ Len(sondes[out.callsign].ascent_rates) >= out.held

\* The last message was a complete record and the process has run on since.
HandledComplete ==
    /\ pc = "idle"
    /\ ~restarted
    /\ out.state \in {"line", "raised"}
    /\ out.error \notin {"callsign", "position"}

\* C16: after a complete record has been handled, its callsign's Sonde holds
\* the record's altitude as last_alt and the record's processing time as
\* last_message_time, whether or not a climb rate came of it.
C16_LastIsLatest ==
    HandledComplete =>
        /\ sondes[out.callsign].has_last
        /\ sondes[out.callsign].last_alt = out.altitude
        /\ sondes[out.callsign].last_message_time = out.time

\* C20: a record whose handling raises before the output line is built leaves
\* nothing behind: no line is sent, the identifier store holds the callsigns,
\* identifiers and timestamps it held, and every Sonde is as it was.
C20_FailedRecordNoEffect ==
    [][(nobs' # nobs /\ out'.state = "raised") =>
           /\ msg' = msg
           /\ LoadIcaos(file').value = LoadIcaos(file).value
           /\ sondes' = sondes]_vars

\* The datagram a thread holds is not a PAYLOAD_SUMMARY packet.
Discarded(t) ==
    /\ threads[t].pc = "handle"
    /\ threads'[t].pc # "handle"
    /\ threads[t].m.kind # "summary"

\* C14: a datagram that is not JSON, has no type or has another type is
\* discarded by handle_udp_packet: the callback is not called, no line is
\* sent, the ICAO file and every Sonde stay as they are, and the thread is
\* back at its loop for the next datagram.
C14_OthersDiscarded ==
    [][\A t \in Threads :
          Discarded(t) =>
              /\ threads'[t].pc = "loop"
              /\ UNCHANGED <<file, sondes, out, nobs, msg, conn>>]_vars

\* A datagram that is not JSON was discarded and the PAYLOAD_SUMMARY packet
\* that came after it has produced its line.
C14_Witness ==
    /\ Len(handled) >= 2
    /\ handled[1].kind = "garbage"
    /\ handled[2].kind = "summary"
    /\ out.state = "line"
    /\ nobs = 1

\* Threads that exist, and threads that are inside the callback.
Alive == {t \in Threads : threads[t].pc # "unborn"}

InCallback == {t \in Threads : threads[t].pc \in {"callback", "accept"}}

\* C17: however often start() is called there is at most one listener thread,
\* so at most one execution of handle_sonde_message is in progress.
C17_OneThreadOneCallback ==
    /\ Cardinality(Alive) <= 1
    /\ Cardinality(InCallback) <= 1
    /\ \A t \in Alive : t = listener_thread

\* start() has been called twice and the one thread is inside the callback.
C17_Witness ==
    /\ counts.starts = 2
    /\ InCallback # {}

\* C18: once close() has been called on a started listener the shutdown
\* completes: the thread ends, join() returns and the sink connection is
\* closed.
C18_ShutdownCompletes ==
    [](main = "join" => <>(main = "exited" /\ conn = "closed"))

\* C19: the datagrams handed to handle_udp_packet are handed over in arrival
\* order and none of them twice.
C19_AtMostOnceInOrder ==
    \A i, j \in 1..Len(handled) : i < j => handled[i].id < handled[j].id

=============================================================================
